---- MODULE Spec2Model ----
(***************************************************************************)
(* A model of package wagering (src/wagering.go): the Odds / Probability   *)
(* value types, the AverageOdds accumulator, the Kelly formulas and the    *)
(* six "true odds" normalizers.                                            *)
(*                                                                         *)
(* Arithmetic.  float64 is modelled in two ways:                           *)
(*  - closed-form code (constructors, accumulator, Kelly, EqualMargin,     *)
(*    Additive, MPT) is computed over exact rationals extended with the    *)
(*    IEEE special values +Inf, -Inf and NaN, so that a division by zero   *)
(*    yields what the Go build yields and is not an error of the model;    *)
(*  - the three successive-substitution loops (Shin, OddsRatio,            *)
(*    Logarithmic) are computed in fixed point with SCALE units per 1.0    *)
(*    and round-to-nearest after every operation, math.Sqrt and math.Pow   *)
(*    by an integer square root and by exp/ln series.                      *)
(* Neither view models the last-bit rounding of float64.                   *)
(***************************************************************************)
EXTENDS Integers, Sequences, FiniteSets, TLC

(***************************************************************************)
(* Bounds of the model.                                                    *)
(***************************************************************************)
\* longest market handed to a normalizer
MaxLen == 3

\* most odds ever accumulated into one AverageOdds
MaxObs == 3

\* most odds passed to one Accumulate call
MaxArgs == 2

\* largest count passed to AverageWithout
MaxRemove == 2

(***************************************************************************)
(* Exact rationals with IEEE special values.                               *)
(***************************************************************************)
Abs(x) == IF x < 0 THEN -x ELSE x

Sign(x) == IF x < 0 THEN -1 ELSE IF x > 0 THEN 1 ELSE 0

RECURSIVE GCD(_, _)
GCD(a, b) == IF b = 0 THEN a ELSE GCD(b, a % b)

NaN == [k |-> "nan", n |-> 0, d |-> 1]

PosInf == [k |-> "inf", n |-> 1, d |-> 1]

NegInf == [k |-> "inf", n |-> -1, d |-> 1]

\* the finite value n/d (d # 0), in lowest terms with a positive denominator
Fin(n, d) ==
    LET g == GCD(Abs(n), Abs(d))
        s == IF d < 0 THEN -1 ELSE 1
    IN  [k |-> "fin", n |-> s * (n \div g), d |-> s * (d \div g)]

Int2R(n) == [k |-> "fin", n |-> n, d |-> 1]

IsNaN(x) == x.k = "nan"

IsInf(x) == x.k = "inf"

IsFin(x) == x.k = "fin"

InfOf(s) == IF s < 0 THEN NegInf ELSE PosInf

RNeg(x) == IF IsNaN(x) THEN NaN ELSE [x EXCEPT !.n = -x.n]

\* x + y
RAdd(x, y) ==
    IF IsNaN(x) \/ IsNaN(y) THEN NaN
    ELSE IF IsInf(x) THEN (IF IsInf(y) /\ y.n # x.n THEN NaN ELSE x)
    ELSE IF IsInf(y) THEN y
    ELSE Fin(x.n * y.d + y.n * x.d, x.d * y.d)

\* x - y
RSub(x, y) == RAdd(x, RNeg(y))

\* x * y
RMul(x, y) ==
    IF IsNaN(x) \/ IsNaN(y) THEN NaN
    ELSE IF IsInf(x) \/ IsInf(y)
         THEN (IF x.n = 0 \/ y.n = 0 THEN NaN ELSE InfOf(Sign(x.n) * Sign(y.n)))
    ELSE Fin(x.n * y.n, x.d * y.d)

\* x / y; a zero divisor is +0 (the code never divides by a negative zero)
RDiv(x, y) ==
    IF IsNaN(x) \/ IsNaN(y) THEN NaN
    ELSE IF IsInf(x) THEN (IF IsInf(y) THEN NaN
                           ELSE InfOf(Sign(x.n) * (IF y.n < 0 THEN -1 ELSE 1)))
    ELSE IF IsInf(y) THEN Int2R(0)
    ELSE IF y.n = 0 THEN (IF x.n = 0 THEN NaN ELSE InfOf(Sign(x.n)))
    ELSE Fin(x.n * y.d, x.d * y.n)

\* x < y; every comparison with NaN is false
RLt(x, y) ==
    /\ ~IsNaN(x)
    /\ ~IsNaN(y)
    /\ x # y
    /\ IF IsInf(x) THEN x.n < 0
       ELSE IF IsInf(y) THEN y.n > 0
       ELSE x.n * y.d < y.n * x.d

RGt(x, y) == RLt(y, x)

RGe(x, y) == ~IsNaN(x) /\ ~IsNaN(y) /\ ~RLt(x, y)

RLe(x, y) == RGe(y, x)

\* math.Max: NaN if either argument is NaN, else the larger
RMax(x, y) ==
    IF IsNaN(x) \/ IsNaN(y) THEN NaN
    ELSE IF RLt(x, y) THEN y ELSE x

\* math.Abs
RAbs(x) == IF IsNaN(x) THEN NaN ELSE [x EXCEPT !.n = Abs(x.n)]

RECURSIVE RSum(_)
RSum(s) == IF s = <<>> THEN Int2R(0) ELSE RAdd(RSum(SubSeq(s, 1, Len(s) - 1)), s[Len(s)])

(***************************************************************************)
(* Odds and Probability (value types).                                     *)
(***************************************************************************)
R1 == Int2R(1)

R100 == Int2R(100)

\* NewOddsFromAmerican storing the magnitude of its argument
NewOddsFromAmericanAbs(americanOdds) ==
    [decimalOdds  |-> IF RGt(americanOdds, Int2R(0))
                      THEN RAdd(RDiv(americanOdds, R100), R1)
                      ELSE RSub(R1, RDiv(R100, americanOdds)),
     americanOdds |-> RAbs(americanOdds)]

\* func NewOddsFromAmerican(americanOdds float64) Odds
NewOddsFromAmerican(americanOdds) ==
    [decimalOdds  |-> IF RGt(americanOdds, Int2R(0))
                      THEN RAdd(RDiv(americanOdds, R100), R1)
                      ELSE RSub(R1, RDiv(R100, americanOdds)),
     americanOdds |-> americanOdds]

\* NewOddsFromDecimal with the branch of decimalOdds >= 2.0 only
NewOddsFromDecimalOneBranch(decimalOdds) ==
    [decimalOdds  |-> decimalOdds,
     americanOdds |-> RMul(RSub(decimalOdds, R1), R100)]

\* func NewOddsFromDecimal(decimalOdds float64) Odds
NewOddsFromDecimal(decimalOdds) ==
    [decimalOdds  |-> decimalOdds,
     americanOdds |-> IF RGe(decimalOdds, Int2R(2))
                      THEN RMul(RSub(decimalOdds, R1), R100)
                      ELSE RDiv(Int2R(-100), RSub(decimalOdds, R1))]

\* func NewProbabilityFromDecimal(decimal float64) Probability
NewProbabilityFromDecimal(decimal) ==
    [decimal |-> decimal, percent |-> RMul(decimal, R100)]

\* func NewProbabilityFromPercent(percent float64) Probability
NewProbabilityFromPercent(percent) ==
    [decimal |-> RDiv(percent, R100), percent |-> percent]

\* func (odds Odds) ImpliedProb() Probability
ImpliedProb(odds) == NewProbabilityFromDecimal(RDiv(R1, odds.decimalOdds))

\* func probs(odds ...Odds) []Probability
probs(odds) == [j \in 1..Len(odds) |-> ImpliedProb(odds[j])]

\* func probSum(odds ...Odds) float64
probSum(odds) == RSum([j \in 1..Len(odds) |-> probs(odds)[j].decimal])

\* func margin(odds ...Odds) float64
margin(odds) == RSub(probSum(odds), R1)

(***************************************************************************)
(* Methods of Odds.  Every method has a value receiver.                    *)
(***************************************************************************)
\* func (odds Odds) American() float64
American(odds) == odds.americanOdds

\* func (odds Odds) Decimal() float64
Decimal(odds) == odds.decimalOdds

\* func (odds Odds) Equals(other Odds) bool
Equals(odds, other) == odds.decimalOdds = other.decimalOdds /\ ~IsNaN(odds.decimalOdds)

\* func (odds Odds) Longer(other Odds) bool
Longer(odds, other) == RGt(odds.decimalOdds, other.decimalOdds)

\* func (odds Odds) Shorter(other Odds) bool
Shorter(odds, other) == RLt(odds.decimalOdds, other.decimalOdds)

\* func (odds Odds) ExpectedValueProb(prob Probability) float64
ExpectedValueProb(odds, prob) ==
    RSub(RMul(prob.decimal, RSub(odds.decimalOdds, R1)), RSub(R1, prob.decimal))

\* func (odds Odds) ExpectedValueOdds(trueOdds Odds) float64
ExpectedValueOdds(odds, trueOdds) == ExpectedValueProb(odds, ImpliedProb(trueOdds))

\* MarketWidth without the negation of the both-positive case
MarketWidthUnsigned(odds1, odds2) ==
    IF RLt(odds1.americanOdds, Int2R(0)) /\ RLt(odds2.americanOdds, Int2R(0))
    THEN RSub(RAdd(RAbs(odds1.americanOdds), RAbs(odds2.americanOdds)), Int2R(200))
    ELSE IF RGt(odds1.americanOdds, Int2R(0)) /\ RGt(odds2.americanOdds, Int2R(0))
    THEN RSub(RAdd(odds1.americanOdds, odds2.americanOdds), Int2R(200))
    ELSE RAbs(RAdd(odds1.americanOdds, odds2.americanOdds))

\* func MarketWidth(odds1, odds2 Odds) float64
MarketWidth(odds1, odds2) ==
    IF RLt(odds1.americanOdds, Int2R(0)) /\ RLt(odds2.americanOdds, Int2R(0))
    THEN RSub(RAdd(RAbs(odds1.americanOdds), RAbs(odds2.americanOdds)), Int2R(200))
    ELSE IF RGt(odds1.americanOdds, Int2R(0)) /\ RGt(odds2.americanOdds, Int2R(0))
    THEN RNeg(RSub(RAdd(odds1.americanOdds, odds2.americanOdds), Int2R(200)))
    ELSE RAbs(RAdd(odds1.americanOdds, odds2.americanOdds))

\* a string is modelled as the sequence of its characters
DigitChars == <<"0", "1", "2", "3", "4", "5", "6", "7", "8", "9">>

\* the decimal digits of the natural number k, without leading zeros
RECURSIVE IntDigits(_)
IntDigits(k) ==
    IF k < 10 THEN <<DigitChars[k + 1]>>
    ELSE IntDigits(k \div 10) \o <<DigitChars[(k % 10) + 1]>>

\* fmt.Sprintf("%.2f", x) for a finite x: a minus sign if x is negative, the
\* integer part, a point and the hundredths rounded to nearest
Sprintf2f(x) ==
    LET hundredths == ((2 * Abs(x.n) * 100) + x.d) \div (2 * x.d)
    IN  (IF x.n < 0 THEN <<"-">> ELSE <<>>)
        \o IntDigits(hundredths \div 100)
        \o <<".">>
        \o <<DigitChars[((hundredths \div 10) % 10) + 1], DigitChars[(hundredths % 10) + 1]>>

\* func (odds Odds) ToString(of OddsFormat) string
OddsToString(odds, of) ==
    IF of = "american"
    THEN IF RGe(odds.americanOdds, Int2R(0))
         THEN <<"+">> \o Sprintf2f(odds.americanOdds)
         ELSE <<"-">> \o Sprintf2f(odds.americanOdds)
    ELSE IF of = "decimal"
    THEN Sprintf2f(odds.decimalOdds)
    ELSE <<"panic">>

(***************************************************************************)
(* Kelly stake sizing.                                                     *)
(***************************************************************************)
\* KellyFraction returning percent as computed
KellyFractionUnclamped(odds, prob, mult) ==
    LET profitMult == RSub(odds.decimalOdds, R1)
        kelly      == RDiv(RSub(RMul(profitMult, prob.decimal),
                                RSub(R1, prob.decimal)),
                           profitMult)
        percent    == RMul(mult, kelly)
    IN  percent

\* func (odds Odds) KellyFraction(prob Probability, mult float64) float64
KellyFraction(odds, prob, mult) ==
    LET profitMult == RSub(odds.decimalOdds, R1)
        kelly      == RDiv(RSub(RMul(profitMult, prob.decimal),
                                RSub(R1, prob.decimal)),
                           profitMult)
        percent    == RMul(mult, kelly)
    IN  RMax(percent, Int2R(0))

\* func (odds Odds) KellyStake(prob Probability, mult, bankroll float64) float64
KellyStake(odds, prob, mult, bankroll) ==
    RMul(KellyFraction(odds, prob, mult), bankroll)

(***************************************************************************)
(* AverageOdds.  A method on *AverageOdds is modelled by the accumulator   *)
(* it leaves behind and, for the queries, the Odds it returns.             *)
(***************************************************************************)
\* func NewAverageOdds() AverageOdds
NewAverageOdds == [sum |-> Int2R(0), count |-> 0]

\* Accumulate adding 1 to count per call instead of per odds
RECURSIVE AccumulateOncePerCall(_, _)
AccumulateOncePerCall(ao, args) ==
    IF args = <<>> THEN ao
    ELSE AccumulateOncePerCall(
             [sum   |-> RAdd(ao.sum, Head(args).decimalOdds),
              count |-> IF Len(args) = 1 THEN ao.count + 1 ELSE ao.count],
             Tail(args))

\* func (ao *AverageOdds) Accumulate(odds ...Odds)
RECURSIVE Accumulate(_, _)
Accumulate(ao, args) ==
    IF args = <<>> THEN ao
    ELSE Accumulate([sum   |-> RAdd(ao.sum, Head(args).decimalOdds),
                     count |-> ao.count + 1],
                    Tail(args))

\* func (ao *AverageOdds) Average() Odds
Average(ao) ==
    [ao  |-> ao,
     ret |-> NewOddsFromDecimal(RDiv(ao.sum, Int2R(ao.count)))]

\* AverageWithout taking the odds out of the accumulator itself
AverageWithoutInPlace(ao, o, n) ==
    LET sum         == RSub(ao.sum, RMul(o.decimalOdds, Int2R(n)))
        decimalOdds == RDiv(sum, Int2R(ao.count - n))
    IN  [ao  |-> [sum |-> sum, count |-> ao.count - n],
         ret |-> NewOddsFromDecimal(decimalOdds)]

\* AverageWithout dividing by the whole count
AverageWithoutWholeCount(ao, o, n) ==
    LET sum         == RSub(ao.sum, RMul(o.decimalOdds, Int2R(n)))
        decimalOdds == RDiv(sum, Int2R(ao.count))
    IN  [ao  |-> ao,
         ret |-> NewOddsFromDecimal(decimalOdds)]

\* func (ao *AverageOdds) AverageWithout(odds Odds, count int) Odds
AverageWithout(ao, o, n) ==
    LET sum         == RSub(ao.sum, RMul(o.decimalOdds, Int2R(n)))
        decimalOdds == RDiv(sum, Int2R(ao.count - n))
    IN  [ao  |-> ao,
         ret |-> NewOddsFromDecimal(decimalOdds)]

(***************************************************************************)
(* The three closed-form normalizers.                                      *)
(***************************************************************************)
\* func EqualMarginOdds(odds ...Odds) []Odds
EqualMarginOdds(odds) ==
    [j \in 1..Len(odds) |->
        NewOddsFromDecimal(RMul(odds[j].decimalOdds, probSum(odds)))]

\* func AdditiveOdds(odds ...Odds) []Odds
AdditiveOdds(odds) ==
    LET n == Int2R(Len(odds))
        m == margin(odds)
    IN  [j \in 1..Len(odds) |->
            LET prob == RSub(RDiv(R1, odds[j].decimalOdds), RDiv(m, n))
            IN  NewOddsFromDecimal(RDiv(R1, prob))]

\* MPTOdds with the margin not multiplied by the odds
MPTOddsFlatMargin(odds) ==
    LET n == Int2R(Len(odds))
        m == margin(odds)
    IN  [j \in 1..Len(odds) |->
            NewOddsFromDecimal(RDiv(RMul(n, odds[j].decimalOdds), RSub(n, m)))]

\* func MPTOdds(odds ...Odds) []Odds
MPTOdds(odds) ==
    LET n == Int2R(Len(odds))
        m == margin(odds)
    IN  [j \in 1..Len(odds) |->
            NewOddsFromDecimal(RDiv(RMul(n, odds[j].decimalOdds),
                                    RSub(n, RMul(m, odds[j].decimalOdds))))]

(***************************************************************************)
(* Fixed point: an integer v stands for the float64 v / SCALE.             *)
(***************************************************************************)
\* units per 1.0
SCALE == 10 * 10 * 10

\* x / y rounded to the nearest integer (y # 0)
RoundDiv(x, y) ==
    IF y < 0 THEN (2 * (-x) + (-y)) \div (2 * (-y))
             ELSE (2 * x + y) \div (2 * y)

FxMul(a, b) == RoundDiv(a * b, SCALE)

FxDiv(a, b) == RoundDiv(a * SCALE, b)

\* a finite rational as a fixed-point number
ToFx(r) == RoundDiv(r.n * SCALE, r.d)

\* a fixed-point number as a rational
FromFx(v) == Fin(v, SCALE)

\* the largest r in lo..hi with r * r <= x
RECURSIVE SqrtIter(_, _, _)
SqrtIter(x, lo, hi) ==
    IF lo >= hi THEN lo
    ELSE LET mid == (lo + hi + 1) \div 2
         IN  IF mid * mid <= x THEN SqrtIter(x, mid, hi)
                               ELSE SqrtIter(x, lo, mid - 1)

\* math.Sqrt on fixed point (a >= 0)
FxSqrt(a) == SqrtIter(a * SCALE, 0, 46340)

\* sum over odd k of y^k / k, from the term y^k on
RECURSIVE AtanhSeries(_, _, _)
AtanhSeries(y, term, k) ==
    IF term = 0 \/ k >= 60 THEN 0
    ELSE RoundDiv(term, k) + AtanhSeries(y, FxMul(FxMul(term, y), y), k + 2)

\* math.Log on fixed point (x > 0): 2 * atanh((x - 1) / (x + 1))
FxLn(x) ==
    LET y == FxDiv(x - SCALE, x + SCALE)
    IN  2 * AtanhSeries(y, y, 1)

\* sum over k of x^k / k!, from the term after `term` on
RECURSIVE ExpSeries(_, _, _)
ExpSeries(x, term, k) ==
    IF term = 0 \/ k >= 50 THEN 0
    ELSE LET next == RoundDiv(term * x, k * SCALE)
         IN  next + ExpSeries(x, next, k + 1)

\* math.Exp on fixed point: series for |x| <= 1/2, else exp(x/2)^2
RECURSIVE FxExp(_)
FxExp(x) ==
    IF Abs(x) <= SCALE \div 2 THEN SCALE + ExpSeries(x, SCALE, 1)
    ELSE LET h == FxExp(RoundDiv(x, 2)) IN FxMul(h, h)

\* math.Pow(x, y) on fixed point (x > 0)
FxPow(x, y) == FxExp(FxMul(y, FxLn(x)))

RECURSIVE FxSum(_)
FxSum(s) == IF s = <<>> THEN 0 ELSE FxSum(SubSeq(s, 1, Len(s) - 1)) + s[Len(s)]

(***************************************************************************)
(* The three iterative normalizers: the transform f(o, c) of each.         *)
(***************************************************************************)
\* tolerance := 1e-12.  The residual of the fixed-point transforms carries
\* the rounding error of every operation, so the threshold is stated in
\* SCALE units, above that error and far below any residual of a loop that
\* does not converge.
Tolerance == 24

\* maxIterations := 1000
maxIterations == 1000

\* the decimal odds and the implied probability of o, in fixed point
FxDecimal(o) == ToFx(o.decimalOdds)

FxImplied(o) == ToFx(ImpliedProb(o).decimal)

\* overround := probSum(odds...)   (ShinOdds)
ShinOverround(odds) == ToFx(probSum(odds))

\* prob := func(odds Odds) float64 { ... }   (ShinOdds)
ShinProb(o, c, overround) ==
    LET p           == FxImplied(o)
        inner       == FxMul(c, c) + FxMul(FxMul(4 * SCALE, SCALE - c), FxMul(p, p))
        sqrt        == FxSqrt(FxDiv(inner, overround))
        numerator   == sqrt - c
        denominator == FxMul(2 * SCALE, SCALE - c)
    IN  FxDiv(numerator, denominator)

\* prob := func(odds Odds) float64 { ... }   (OddsRatioOdds)
OddsRatioProb(o, c) ==
    FxDiv(FxImplied(o), c + FxDiv(SCALE - c, FxDecimal(o)))

\* prob := func(odds Odds) float64 { ... }   (LogarithmicOdds)
LogarithmicProb(o, c) == FxPow(FxImplied(o), c)

\* the closure `prob` of the named function, at the current c
prob(m, odds, o, c) ==
    CASE m = "ShinOdds"        -> ShinProb(o, c, ShinOverround(odds))
      [] m = "OddsRatioOdds"   -> OddsRatioProb(o, c)
      [] m = "LogarithmicOdds" -> LogarithmicProb(o, c)

\* func transSum(prob func(Odds) float64, odds ...Odds) float64
\* prob is the closure of normalizer m, which reads the local c
transSum(m, odds, c) == FxSum([j \in 1..Len(odds) |-> prob(m, odds, odds[j], c)])

\* transOdds building its result back to front
transOddsPrepend(m, odds, c) ==
    [j \in 1..Len(odds) |->
        NewOddsFromDecimal(RDiv(R1, FromFx(prob(m, odds, odds[Len(odds) + 1 - j], c))))]

\* func transOdds(prob func(Odds) float64, odds ...Odds) []Odds
\* prob is the closure of normalizer m, which reads the local c
transOdds(m, odds, c) ==
    [j \in 1..Len(odds) |->
        NewOddsFromDecimal(RDiv(R1, FromFx(prob(m, odds, odds[j], c))))]

\* c := 1.0 in all three iterative normalizers
InitialCOne(m) == SCALE

\* c := 0.0 (ShinOdds), c := 1.0 (OddsRatioOdds, LogarithmicOdds)
InitialC(m) == IF m = "ShinOdds" THEN 0 ELSE SCALE

\* the loop condition without the iteration cap
LoopGuardNoCap(d, n) == Abs(d) > Tolerance

\* for math.Abs(delta) > tolerance && i < maxIterations
LoopGuard(d, n) == Abs(d) > Tolerance /\ n < maxIterations

(***************************************************************************)
(* Inputs.                                                                 *)
(***************************************************************************)
\* quoted decimal prices
Prices == {2, 3, 10}

Quotes == {NewOddsFromDecimal(Int2R(p)) : p \in Prices}

Markets == UNION {[1..n -> Quotes] : n \in 1..MaxLen}

\* the permutations of 1..n
Perms(n) == {f \in [1..n -> 1..n] : \A a, b \in 1..n : f[a] = f[b] => a = b}

\* s with the element of index f[j] moved to index j
Permute(s, f) == [j \in 1..Len(s) |-> s[f[j]]]

ClosedForm == {"EqualMarginOdds", "AdditiveOdds", "MPTOdds"}

\* the odds accumulated into an AverageOdds
AccQuotes == {NewOddsFromDecimal(Int2R(p)) : p \in {3, 5, 7}}

\* the argument lists of one Accumulate call
ArgLists == UNION {[1..k -> AccQuotes] : k \in 0..MaxArgs}

\* the odds asked of AverageWithout: accumulated ones and one that never is
QueryOdds == AccQuotes \cup {NewOddsFromDecimal(Fin(5, 2))}

\* receivers and arguments of KellyFraction
KellyOdds ==
    {NewOddsFromDecimal(d) : d \in {R1, Fin(11, 10), Fin(3, 2), Int2R(2), Int2R(3)}}
    \cup {NewOddsFromAmerican(a) : a \in {Int2R(200), Int2R(-110)}}

KellyProbs ==
    {NewProbabilityFromDecimal(d) :
        d \in {Int2R(0), Fin(1, 4), Fin(1, 2), Fin(6, 10), R1}}

KellyMults == {Int2R(-1), Int2R(0), Fin(1, 4), R1, Int2R(2)}

\* bankrolls handed to KellyStake
Bankrolls == {Int2R(0), R100, Int2R(1000)}

\* the goroutines sharing one accumulator
Goroutines == {1, 2}

\* decimal prices of the markets handed to the closed-form normalizers
ClosedPrices == {Fin(4, 3), Int2R(2), Int2R(4), Int2R(50)}

ClosedQuotes == {NewOddsFromDecimal(d) : d \in ClosedPrices}

ClosedMarkets == UNION {[1..n -> ClosedQuotes] : n \in 1..MaxLen}

\* primary values handed to the constructors of Odds
AmericanInputs == {Int2R(a) : a \in {-141, -110, -100, 50, 100, 123, 150, 200}}

DecimalInputs == {Fin(11, 10), Fin(191, 100), Int2R(2), Fin(5, 2), Int2R(4)}

Givens ==
    [basis : {"american"}, value : AmericanInputs]
    \cup [basis : {"decimal"}, value : DecimalInputs]

Iterative == {"ShinOdds", "OddsRatioOdds", "LogarithmicOdds"}

(***************************************************************************)
(* State.                                                                  *)
(***************************************************************************)
VARIABLES
    method,     \* the normalizer under call
    market,     \* the market of the first call
    callNo,     \* 1 or 2: the call in progress
    odds,       \* the argument of the call in progress: the market in the
                \* first call, a permutation of it in the second
    c,          \* local c
    i,          \* local i
    delta,      \* local delta
    pc,         \* "call", "loop" or "done"
    rets,       \* what the calls returned so far, in order
    bodyRuns    \* executions of the loop body in the call in progress

nvars == <<method, market, callNo, odds, c, i, delta, pc, rets, bodyRuns>>

\* one AverageOdds used by one goroutine
VARIABLES
    ao,         \* the accumulator: its fields sum and count
    hist,       \* every Odds passed to Accumulate so far, in order
    last,       \* the latest call: method, arguments and what it returned
    prev        \* the call before it

avars == <<ao, hist, last, prev>>

\* one AverageOdds shared by two goroutines
VARIABLES
    mode,       \* "unsync", "locked" (writers) or "readers"
    base,       \* the accumulator before the goroutines start
    job,        \* per goroutine: the call it makes
    shared,     \* the shared accumulator
    gpc,        \* per goroutine: where it is in its call
    regSum,     \* per goroutine: the value it loaded from sum
    regCount,   \* per goroutine: the value it loaded from count
    held,       \* the goroutine holding the caller's mutex, or 0
    result      \* per goroutine: what its query returned

cvars == <<mode, base, job, shared, gpc, regSum, regCount, held, result>>

\* one KellyFraction call
VARIABLES
    kellyOdds,  \* receiver
    kellyProb,  \* argument prob
    kellyMult,  \* argument mult
    kellyPc,    \* "call" or "done"
    kellyRet    \* the float64 returned

kvars == <<kellyOdds, kellyProb, kellyMult, kellyPc, kellyRet>>

\* two Odds values and the calls made on them
VARIABLES
    given,      \* per value: the basis and the primary value passed to its constructor
    pair,       \* the two Odds constructed from given, or <<>> before
    opc,        \* "new" before construction, "ready" after
    out         \* the latest call on the pair and what it returned

ovars == <<given, pair, opc, out>>

vars == <<nvars, avars, cvars, kvars, ovars>>

\* a field of a call record that the call does not have
NoOdds == [decimalOdds |-> NaN, americanOdds |-> NaN]

\* the call record before any call
NoCall == [op |-> "none", o |-> NoOdds, n |-> 0, kind |-> "none", ret |-> NoOdds]

\* no normalizer is being called
IdleNorm ==
    /\ method = "none"
    /\ market = <<>>
    /\ callNo = 0
    /\ odds = <<>>
    /\ c = 0
    /\ i = 0
    /\ delta = 0
    /\ pc = "idle"
    /\ rets = <<>>
    /\ bodyRuns = 0

\* no accumulator is in use by a single goroutine
IdleAvg ==
    /\ ao = NewAverageOdds
    /\ hist = <<>>
    /\ last = NoCall
    /\ prev = NoCall

\* no accumulator is shared
IdleConc ==
    /\ mode = "idle"
    /\ base = NewAverageOdds
    /\ job = [g \in Goroutines |-> NoCall]
    /\ shared = NewAverageOdds
    /\ gpc = [g \in Goroutines |-> "idle"]
    /\ regSum = [g \in Goroutines |-> Int2R(0)]
    /\ regCount = [g \in Goroutines |-> 0]
    /\ held = 0
    /\ result = [g \in Goroutines |-> NoOdds]

\* what `out` holds before any call
NoOut == [op |-> "none", val |-> Int2R(0), flag |-> FALSE, str |-> <<>>]

\* no Odds pair is in use
IdleOdds ==
    /\ given = <<>>
    /\ pair = <<>>
    /\ opc = "idle"
    /\ out = NoOut

\* no Kelly call is made
IdleKelly ==
    /\ kellyOdds = NoOdds
    /\ kellyProb = NewProbabilityFromDecimal(Int2R(0))
    /\ kellyMult = Int2R(0)
    /\ kellyPc = "idle"
    /\ kellyRet = Int2R(0)

\* the value a normalizer hands to its caller: a []Odds and nothing else
Returned(norms) == [kind |-> "odds", odds |-> norms]

\* the caller receives ret and goes on to call the same normalizer on a
\* permutation of the market, or is done
AfterReturn(ret) ==
    /\ rets' = Append(rets, ret)
    /\ IF callNo = 1
       THEN /\ callNo' = 2
            /\ \E f \in Perms(Len(market)) : odds' = Permute(market, f)
            /\ pc' = "call"
       ELSE /\ pc' = "done"
            /\ UNCHANGED <<callNo, odds>>

NormInit ==
    /\ method \in ClosedForm \cup Iterative
    /\ market \in Markets
    /\ callNo = 1
    /\ odds = market
    /\ c = 0
    /\ i = 0
    /\ delta = 0
    /\ pc = "call"
    /\ rets = <<>>
    /\ bodyRuns = 0
    /\ IdleAvg
    /\ IdleConc
    /\ IdleKelly
    /\ IdleOdds

\* a closed-form normalizer runs from call to return
CallClosedForm(m, norms) ==
    /\ pc = "call"
    /\ method = m
    /\ AfterReturn(Returned(norms))
    /\ UNCHANGED <<method, market, c, i, delta, bodyRuns>>
    /\ UNCHANGED <<avars, cvars, kvars, ovars>>

EqualMarginCall == CallClosedForm("EqualMarginOdds", EqualMarginOdds(odds))

AdditiveCall == CallClosedForm("AdditiveOdds", AdditiveOdds(odds))

MPTCall == CallClosedForm("MPTOdds", MPTOdds(odds))

\* entry of an iterative normalizer, up to the first test of the loop
Start(m) ==
    /\ pc = "call"
    /\ method = m
    /\ c' = InitialC(m)
    /\ i' = 0
    /\ delta' = transSum(m, odds, InitialC(m)) - SCALE
    /\ bodyRuns' = 0
    /\ pc' = "loop"
    /\ UNCHANGED <<method, market, callNo, odds, rets>>
    /\ UNCHANGED <<avars, cvars, kvars, ovars>>

\* one pass through the loop body, with c moved by 1 - probSum
IterateAsStated(m) ==
    /\ pc = "loop"
    /\ method = m
    /\ LoopGuard(delta, i)
    /\ c' = c - delta
    /\ delta' = transSum(m, odds, c - delta) - SCALE
    /\ i' = i + 1
    /\ bodyRuns' = bodyRuns + 1
    /\ UNCHANGED <<method, market, callNo, odds, pc, rets>>
    /\ UNCHANGED <<avars, cvars, kvars, ovars>>

\* one pass through the loop body
Iterate(m) ==
    /\ pc = "loop"
    /\ method = m
    /\ LoopGuard(delta, i)
    /\ c' = c + delta
    /\ delta' = transSum(m, odds, c + delta) - SCALE
    /\ i' = i + 1
    /\ bodyRuns' = bodyRuns + 1
    /\ UNCHANGED <<method, market, callNo, odds, pc, rets>>
    /\ UNCHANGED <<avars, cvars, kvars, ovars>>

\* loop exit and return transOdds(prob, odds...)
Return(m) ==
    /\ pc = "loop"
    /\ method = m
    /\ ~LoopGuard(delta, i)
    /\ AfterReturn(Returned(transOdds(m, odds, c)))
    /\ UNCHANGED <<method, market, c, i, delta, bodyRuns>>
    /\ UNCHANGED <<avars, cvars, kvars, ovars>>

ShinStart == Start("ShinOdds")

ShinIterate == Iterate("ShinOdds")

ShinReturn == Return("ShinOdds")

OddsRatioStart == Start("OddsRatioOdds")

OddsRatioIterate == Iterate("OddsRatioOdds")

OddsRatioReturn == Return("OddsRatioOdds")

LogarithmicStart == Start("LogarithmicOdds")

LogarithmicIterate == Iterate("LogarithmicOdds")

LogarithmicReturn == Return("LogarithmicOdds")

NormNext ==
    \/ EqualMarginCall
    \/ AdditiveCall
    \/ MPTCall
    \/ ShinStart
    \/ ShinIterate
    \/ ShinReturn
    \/ OddsRatioStart
    \/ OddsRatioIterate
    \/ OddsRatioReturn
    \/ LogarithmicStart
    \/ LogarithmicIterate
    \/ LogarithmicReturn

SpecNorm == NormInit /\ [][NormNext]_vars

(***************************************************************************)
(* The three closed-form normalizers alone, on a wider range of prices.    *)
(***************************************************************************)
ClosedInit ==
    /\ method \in ClosedForm
    /\ market \in ClosedMarkets
    /\ callNo = 1
    /\ odds = market
    /\ c = 0
    /\ i = 0
    /\ delta = 0
    /\ pc = "call"
    /\ rets = <<>>
    /\ bodyRuns = 0
    /\ IdleAvg
    /\ IdleConc
    /\ IdleKelly
    /\ IdleOdds

ClosedNext ==
    \/ EqualMarginCall
    \/ AdditiveCall
    \/ MPTCall

SpecClosed == ClosedInit /\ [][ClosedNext]_vars

(***************************************************************************)
(* One goroutine using one AverageOdds.                                    *)
(***************************************************************************)
AvgInit ==
    /\ ao = NewAverageOdds
    /\ hist = <<>>
    /\ last = NoCall
    /\ prev = NoCall
    /\ IdleNorm
    /\ IdleConc
    /\ IdleKelly
    /\ IdleOdds

\* ao.Accumulate(args...)
AccumulateCall ==
    \E args \in ArgLists :
        /\ Len(hist) + Len(args) <= MaxObs
        /\ ao' = Accumulate(ao, args)
        /\ hist' = hist \o args
        /\ prev' = last
        /\ last' = [op |-> "Accumulate", o |-> NoOdds, n |-> Len(args),
                    kind |-> "none", ret |-> NoOdds]
        /\ UNCHANGED <<nvars, cvars, kvars, ovars>>

\* ao.Average()
AverageCall ==
    /\ ao' = Average(ao).ao
    /\ prev' = last
    /\ last' = [op |-> "Average", o |-> NoOdds, n |-> 0,
                kind |-> "odds", ret |-> Average(ao).ret]
    /\ UNCHANGED <<hist, nvars, cvars, kvars, ovars>>

\* ao.AverageWithout(o, n)
AverageWithoutCall ==
    \E o \in QueryOdds, n \in 0..MaxRemove :
        /\ ao' = AverageWithout(ao, o, n).ao
        /\ prev' = last
        /\ last' = [op |-> "AverageWithout", o |-> o, n |-> n,
                    kind |-> "odds", ret |-> AverageWithout(ao, o, n).ret]
        /\ UNCHANGED <<hist, nvars, cvars, kvars, ovars>>

AvgNext ==
    \/ AccumulateCall
    \/ AverageCall
    \/ AverageWithoutCall

SpecAvg == AvgInit /\ [][AvgNext]_vars

(***************************************************************************)
(* Two goroutines sharing one AverageOdds.  The statements                 *)
(* ao.sum += o.decimalOdds and ao.count++ are each a load and a store;     *)
(* a query loads sum and count.  In mode "locked" the callers wrap each    *)
(* Accumulate in Lock/Unlock of a mutex of their own.                      *)
(***************************************************************************)
Writers == {[op |-> "Accumulate", o |-> o, n |-> 1, kind |-> "none", ret |-> NoOdds] :
               o \in AccQuotes}

Readers ==
    {[op |-> "Average", o |-> NoOdds, n |-> 0, kind |-> "odds", ret |-> NoOdds]}
    \cup {[op |-> "AverageWithout", o |-> o, n |-> n, kind |-> "odds", ret |-> NoOdds] :
             o \in QueryOdds, n \in 0..MaxRemove}

ConcInit ==
    /\ mode \in {"unsync", "locked", "readers"}
    /\ base \in {Accumulate(NewAverageOdds, args) : args \in ArgLists}
    /\ job \in [Goroutines -> IF mode = "readers" THEN Readers ELSE Writers]
    /\ shared = base
    /\ gpc = [g \in Goroutines |-> IF mode = "locked" THEN "lock" ELSE "loadSum"]
    /\ regSum = [g \in Goroutines |-> Int2R(0)]
    /\ regCount = [g \in Goroutines |-> 0]
    /\ held = 0
    /\ result = [g \in Goroutines |-> NoOdds]
    /\ IdleNorm
    /\ IdleAvg
    /\ IdleKelly
    /\ IdleOdds

\* mu.Lock() in the caller
Lock(g) ==
    /\ gpc[g] = "lock"
    /\ held = 0
    /\ held' = g
    /\ gpc' = [gpc EXCEPT ![g] = "loadSum"]
    /\ UNCHANGED <<mode, base, job, shared, regSum, regCount, result>>
    /\ UNCHANGED <<nvars, avars, kvars, ovars>>

\* the read of ao.sum
LoadSum(g) ==
    /\ gpc[g] = "loadSum"
    /\ regSum' = [regSum EXCEPT ![g] = shared.sum]
    /\ gpc' = [gpc EXCEPT ![g] = IF job[g].op = "Accumulate" THEN "storeSum"
                                 ELSE "loadCount"]
    /\ UNCHANGED <<mode, base, job, shared, regCount, held, result>>
    /\ UNCHANGED <<nvars, avars, kvars, ovars>>

\* the write of ao.sum as an assignment of o.decimalOdds
StoreSumAssign(g) ==
    /\ gpc[g] = "storeSum"
    /\ shared' = [shared EXCEPT !.sum = job[g].o.decimalOdds]
    /\ gpc' = [gpc EXCEPT ![g] = "loadCount"]
    /\ UNCHANGED <<mode, base, job, regSum, regCount, held, result>>
    /\ UNCHANGED <<nvars, avars, kvars, ovars>>

\* the write of ao.sum
StoreSum(g) ==
    /\ gpc[g] = "storeSum"
    /\ shared' = [shared EXCEPT !.sum = RAdd(regSum[g], job[g].o.decimalOdds)]
    /\ gpc' = [gpc EXCEPT ![g] = "loadCount"]
    /\ UNCHANGED <<mode, base, job, regSum, regCount, held, result>>
    /\ UNCHANGED <<nvars, avars, kvars, ovars>>

\* the read of ao.count
LoadCount(g) ==
    /\ gpc[g] = "loadCount"
    /\ regCount' = [regCount EXCEPT ![g] = shared.count]
    /\ gpc' = [gpc EXCEPT ![g] = IF job[g].op = "Accumulate" THEN "storeCount"
                                 ELSE "return"]
    /\ UNCHANGED <<mode, base, job, shared, regSum, held, result>>
    /\ UNCHANGED <<nvars, avars, kvars, ovars>>

\* the write of ao.count, the end of Accumulate
StoreCount(g) ==
    /\ gpc[g] = "storeCount"
    /\ shared' = [shared EXCEPT !.count = regCount[g] + 1]
    /\ gpc' = [gpc EXCEPT ![g] = IF mode = "locked" THEN "unlock" ELSE "done"]
    /\ UNCHANGED <<mode, base, job, regSum, regCount, held, result>>
    /\ UNCHANGED <<nvars, avars, kvars, ovars>>

\* mu.Unlock() in the caller
Unlock(g) ==
    /\ gpc[g] = "unlock"
    /\ held = g
    /\ held' = 0
    /\ gpc' = [gpc EXCEPT ![g] = "done"]
    /\ UNCHANGED <<mode, base, job, shared, regSum, regCount, result>>
    /\ UNCHANGED <<nvars, avars, kvars, ovars>>

\* what job j returns on the accumulator a
Query(a, j) ==
    IF j.op = "Average" THEN Average(a).ret ELSE AverageWithout(a, j.o, j.n).ret

\* a query returns the Odds computed from what it loaded
QueryReturn(g) ==
    /\ gpc[g] = "return"
    /\ result' = [result EXCEPT
                     ![g] = Query([sum |-> regSum[g], count |-> regCount[g]], job[g])]
    /\ gpc' = [gpc EXCEPT ![g] = "done"]
    /\ UNCHANGED <<mode, base, job, shared, regSum, regCount, held>>
    /\ UNCHANGED <<nvars, avars, kvars, ovars>>

ConcNext ==
    \E g \in Goroutines :
        \/ Lock(g)
        \/ LoadSum(g)
        \/ StoreSum(g)
        \/ LoadCount(g)
        \/ StoreCount(g)
        \/ Unlock(g)
        \/ QueryReturn(g)

SpecConc == ConcInit /\ [][ConcNext]_vars

(***************************************************************************)
(* One KellyFraction call.                                                 *)
(***************************************************************************)
KellyInit ==
    /\ kellyOdds \in KellyOdds
    /\ kellyProb \in KellyProbs
    /\ kellyMult \in KellyMults
    /\ kellyPc = "call"
    /\ kellyRet = Int2R(0)
    /\ IdleNorm
    /\ IdleAvg
    /\ IdleConc
    /\ IdleOdds

\* kellyOdds.KellyFraction(kellyProb, kellyMult)
KellyFractionCall ==
    /\ kellyPc = "call"
    /\ kellyRet' = KellyFraction(kellyOdds, kellyProb, kellyMult)
    /\ kellyPc' = "done"
    /\ UNCHANGED <<kellyOdds, kellyProb, kellyMult>>
    /\ UNCHANGED <<nvars, avars, cvars, ovars>>

\* kellyOdds.KellyStake(kellyProb, kellyMult, bankroll)
KellyStakeCall ==
    /\ kellyPc = "call"
    /\ \E bankroll \in Bankrolls :
           kellyRet' = KellyStake(kellyOdds, kellyProb, kellyMult, bankroll)
    /\ kellyPc' = "staked"
    /\ UNCHANGED <<kellyOdds, kellyProb, kellyMult>>
    /\ UNCHANGED <<nvars, avars, cvars, ovars>>

KellyNext ==
    \/ KellyFractionCall
    \/ KellyStakeCall

SpecKelly == KellyInit /\ [][KellyNext]_vars

(***************************************************************************)
(* Two Odds values: construction and the calls that take them.             *)
(***************************************************************************)
OddsInit ==
    /\ given \in [1..2 -> Givens]
    /\ pair = <<>>
    /\ opc = "new"
    /\ out = NoOut
    /\ IdleNorm
    /\ IdleAvg
    /\ IdleConc
    /\ IdleKelly

\* the constructor call for a given primary value
Build(g) ==
    IF g.basis = "american" THEN NewOddsFromAmerican(g.value)
    ELSE NewOddsFromDecimal(g.value)

\* the cross-basis round trip of a given primary value
RoundTrip(g) ==
    IF g.basis = "american"
    THEN American(NewOddsFromDecimal(Decimal(NewOddsFromAmerican(g.value))))
    ELSE Decimal(NewOddsFromAmerican(American(NewOddsFromDecimal(g.value))))

\* NewOddsFromAmerican / NewOddsFromDecimal on both primary values
NewOddsCall ==
    /\ opc = "new"
    /\ pair' = [k \in 1..2 |-> Build(given[k])]
    /\ opc' = "ready"
    /\ UNCHANGED <<given, out>>
    /\ UNCHANGED <<nvars, avars, cvars, kvars>>

\* a call on the pair that returns r: the receivers are values, not pointers
OddsCall(r) ==
    /\ opc = "ready"
    /\ out' = r
    /\ UNCHANGED <<given, pair, opc>>
    /\ UNCHANGED <<nvars, avars, cvars, kvars>>

AmericanCall == OddsCall([NoOut EXCEPT !.op = "American", !.val = American(pair[1])])

DecimalCall == OddsCall([NoOut EXCEPT !.op = "Decimal", !.val = Decimal(pair[1])])

EqualsCall == OddsCall([NoOut EXCEPT !.op = "Equals", !.flag = Equals(pair[1], pair[2])])

LongerCall == OddsCall([NoOut EXCEPT !.op = "Longer", !.flag = Longer(pair[1], pair[2])])

ShorterCall == OddsCall([NoOut EXCEPT !.op = "Shorter", !.flag = Shorter(pair[1], pair[2])])

ImpliedProbCall ==
    OddsCall([NoOut EXCEPT !.op = "ImpliedProb", !.val = ImpliedProb(pair[1]).decimal])

ExpectedValueOddsCall ==
    OddsCall([NoOut EXCEPT !.op = "ExpectedValueOdds",
                           !.val = ExpectedValueOdds(pair[1], pair[2])])

OddsKellyCall ==
    OddsCall([NoOut EXCEPT !.op = "KellyFraction",
                           !.val = KellyFraction(pair[1], ImpliedProb(pair[2]), R1)])

ToStringAmericanCall ==
    OddsCall([NoOut EXCEPT !.op = "ToStringAmerican",
                           !.str = OddsToString(pair[1], "american")])

ToStringDecimalCall ==
    OddsCall([NoOut EXCEPT !.op = "ToStringDecimal",
                           !.str = OddsToString(pair[1], "decimal")])

MarketWidthCall ==
    OddsCall([NoOut EXCEPT !.op = "MarketWidth", !.val = MarketWidth(pair[1], pair[2])])

RoundTripCall == OddsCall([NoOut EXCEPT !.op = "RoundTrip", !.val = RoundTrip(given[1])])

\* the pair handed to a normalizer
NormalizeCall ==
    OddsCall([NoOut EXCEPT !.op = "EqualMarginOdds",
                           !.val = EqualMarginOdds(pair)[1].decimalOdds])

\* the pair handed to an accumulator
AccumulatePairCall ==
    OddsCall([NoOut EXCEPT !.op = "Accumulate",
                           !.val = Average(Accumulate(NewAverageOdds, pair)).ret.decimalOdds])

OddsNext ==
    \/ NewOddsCall
    \/ AmericanCall
    \/ DecimalCall
    \/ EqualsCall
    \/ LongerCall
    \/ ShorterCall
    \/ ImpliedProbCall
    \/ ExpectedValueOddsCall
    \/ OddsKellyCall
    \/ ToStringAmericanCall
    \/ ToStringDecimalCall
    \/ MarketWidthCall
    \/ RoundTripCall
    \/ NormalizeCall
    \/ AccumulatePairCall

SpecOdds == OddsInit /\ [][OddsNext]_vars

(***************************************************************************)
(* Properties of the normalizers.                                          *)
(***************************************************************************)
\* a call has just returned: c, i and delta are those it ended with and
\* its result is the last element of rets
JustReturned == rets # <<>> /\ pc \in {"call", "done"}

LastRet == rets[Len(rets)]

\* the call that has just returned used up its iteration budget without
\* reaching the tolerance
Exhausted ==
    /\ JustReturned
    /\ method \in Iterative
    /\ i = maxIterations
    /\ Abs(delta) > Tolerance

\* the sum of the implied probabilities of a returned []Odds
ImpliedSum(norms) == RSum([j \in 1..Len(norms) |-> ImpliedProb(norms[j]).decimal])

\* the 1e-9 of the contract, which like the 1e-12 of the loops lies below
\* the resolution of the fixed-point transforms
SumTolerance == FromFx(Tolerance)

SumsToOne(norms) == RLe(RAbs(RSub(ImpliedSum(norms), R1)), SumTolerance)

\* C1: for every market and each of the six normalizers, the implied
\* probabilities of the returned odds sum to 1 within the tolerance.
C1_SumsToOne == \A k \in 1..Len(rets) : SumsToOne(rets[k].odds)

\* C2: when an iterative normalizer uses up its 1000 iterations without the
\* residual reaching the tolerance, the caller is handed a distinct "did not
\* converge" outcome, never plain odds.
C2_NonConvergenceReported == Exhausted => LastRet.kind = "didNotConverge"

\* the counter i counts the executions of the loop body, never exceeds the
\* budget, and at the budget the loop condition is false whatever the residual
C3_Counted ==
    /\ bodyRuns <= maxIterations
    /\ i = bodyRuns
    /\ (pc = "loop" /\ i >= maxIterations) => ~LoopGuard(delta, i)

\* a step that stays in the loop is one pass of the body and adds 1 to i
C3_Pass == (pc = "loop" /\ pc' = "loop") => (i' = i + 1 /\ bodyRuns' = bodyRuns + 1)

\* C3: the loop of an iterative normalizer terminates: i starts at 0, grows
\* by exactly 1 per pass of the body, the body runs at most 1000 times, and
\* once i reaches 1000 the loop is left whatever the residual.
C3_LoopBounded == []C3_Counted /\ [][C3_Pass]_vars

C3_Witness == JustReturned /\ method \in Iterative /\ bodyRuns = maxIterations

\* C4: a normalizer returns as many odds as it was given, and permuting the
\* market permutes the returned odds in the same way.
C4_OrderPreserved ==
    /\ \A k \in 1..Len(rets) : Len(rets[k].odds) = Len(market)
    /\ pc = "done" =>
          \A f \in Perms(Len(market)) :
              odds = Permute(market, f) => rets[2].odds = Permute(rets[1].odds, f)

C4_Witness == pc = "done" /\ Len(market) = MaxLen /\ odds # market

(***************************************************************************)
(* Properties of AverageOdds used by one goroutine.                        *)
(***************************************************************************)
Queries == {"Average", "AverageWithout"}

\* the decimal odds of a sequence of Odds
Decimals(s) == [j \in 1..Len(s) |-> s[j].decimalOdds]

\* C5: after any sequence of Accumulate calls sum is the total of the decimal
\* odds passed and count their number; a call with k arguments adds exactly k
\* to count, and a call with none changes neither field.
C5_Totals ==
    /\ ao.sum = RSum(Decimals(hist))
    /\ ao.count = Len(hist)

C5_Step ==
    last'.op = "Accumulate" =>
        /\ ao'.count = ao.count + last'.n
        /\ last'.n = 0 => ao' = ao

C5_AccumulateTotals == []C5_Totals /\ [][C5_Step]_vars

C5_Witness ==
    /\ last.op = "Accumulate"
    /\ last.n >= 2
    /\ prev.op = "Accumulate"
    /\ Len(hist) > last.n

\* C6: Average() with count = 0 and AverageWithout(o, n) with count - n <= 0
\* are rejected with a failure outcome and return no Odds.
C6_EmptyRejected ==
    /\ (last.op = "Average" /\ ao.count = 0) => last.kind = "failure"
    /\ (last.op = "AverageWithout" /\ ao.count - last.n <= 0) => last.kind = "failure"

\* the accumulator holding h, built by a single Accumulate call
Replay(h) == Accumulate(NewAverageOdds, h)

\* what the call recorded in r returns on the accumulator a
Answer(a, r) ==
    IF r.op = "Average" THEN Average(a).ret ELSE AverageWithout(a, r.o, r.n).ret

C7_Determined ==
    /\ last.op \in Queries => last.ret = Answer(Replay(hist), last)
    /\ (last.op \in Queries /\ prev.op = last.op /\ prev.o = last.o /\ prev.n = last.n)
           => prev.ret = last.ret

C7_Frame == last'.op \in Queries => ao' = ao

\* C7: Average and AverageWithout leave sum and count unchanged; whatever the
\* interleaving of queries and Accumulate calls, a query returns the value
\* determined by the Accumulate calls before it, and a repeated query with no
\* Accumulate in between returns the same result.
C7_QueriesPure == []C7_Determined /\ [][C7_Frame]_vars

C7_Witness ==
    /\ last.op = "AverageWithout"
    /\ prev.op = "AverageWithout"
    /\ prev.o = last.o
    /\ prev.n = last.n
    /\ last.n > 0
    /\ Len(hist) > last.n

\* the number of elements of h whose decimal odds are those of o
Copies(h, o) == Cardinality({j \in 1..Len(h) : h[j].decimalOdds = o.decimalOdds})

\* h without its first n elements whose decimal odds are those of o
RECURSIVE RemoveCopies(_, _, _)
RemoveCopies(h, o, n) ==
    IF h = <<>> \/ n = 0 THEN h
    ELSE IF Head(h).decimalOdds = o.decimalOdds
         THEN RemoveCopies(Tail(h), o, n - 1)
    ELSE <<Head(h)>> \o RemoveCopies(Tail(h), o, n)

\* the arithmetic mean of the decimal odds of h
Mean(h) == RDiv(RSum(Decimals(h)), Int2R(Len(h)))

\* C8: if the accumulated multiset holds o at least n times and more than n
\* elements, AverageWithout(o, n) is the mean of the multiset less n copies
\* of o; Average() is the mean of the multiset; AverageWithout(o, 0) equals
\* Average().
C8_MeanOfRest ==
    /\ (last.op = "AverageWithout" /\ Copies(hist, last.o) >= last.n
            /\ Len(hist) - last.n > 0)
           => last.ret.decimalOdds = Mean(RemoveCopies(hist, last.o, last.n))
    /\ (last.op = "Average" /\ hist # <<>>) => last.ret.decimalOdds = Mean(hist)
    /\ (last.op = "AverageWithout" /\ last.n = 0 /\ hist # <<>>)
           => last.ret = Average(ao).ret

C8_Witness ==
    /\ last.op = "AverageWithout"
    /\ last.n = 2
    /\ Copies(hist, last.o) = 2
    /\ Len(hist) = 3

(***************************************************************************)
(* Properties of a shared AverageOdds.                                     *)
(***************************************************************************)
AllDone == \A g \in Goroutines : gpc[g] = "done"

\* the accumulator after the two Accumulate calls ran one after the other,
\* in either order
Sequential ==
    {Accumulate(Accumulate(base, <<job[p[1]].o>>), <<job[p[2]].o>>) :
        p \in {q \in Goroutines \X Goroutines : q[1] # q[2]}}

\* C9: Accumulate calls serialized by an external lock end in the sequential
\* sum and count, and concurrent queries of an accumulator that no one writes
\* return the sequential result; without synchronization two Accumulate calls
\* can end in a state that no sequential order gives.
C9_Serialized ==
    /\ (mode = "locked" /\ AllDone) => shared \in Sequential
    /\ mode = "readers" =>
           /\ shared = base
           /\ \A g \in Goroutines : gpc[g] = "done" => result[g] = Query(base, job[g])

C9_LostUpdate ==
    /\ mode = "unsync"
    /\ AllDone
    /\ shared \notin Sequential

(***************************************************************************)
(* Properties of KellyFraction.                                            *)
(***************************************************************************)
\* C10: for decimal odds above 1, a probability in [0, 1] and any multiplier,
\* KellyFraction is at least 0.
C10_KellyNonNegative ==
    (/\ kellyPc = "done"
     /\ RGt(kellyOdds.decimalOdds, R1)
     /\ RGe(kellyProb.decimal, Int2R(0))
     /\ RLe(kellyProb.decimal, R1))
        => RGe(kellyRet, Int2R(0))

\* a negative multiplier on a bet with an edge: the clamp has acted
C10_Witness ==
    /\ kellyPc = "done"
    /\ RLt(kellyMult, Int2R(0))
    /\ RGt(RMul(kellyOdds.decimalOdds, kellyProb.decimal), R1)
    /\ kellyRet = Int2R(0)

\* the edge b*p - q of the bet, b = decimalOdds - 1, q = 1 - p
KellyEdge ==
    RSub(RMul(RSub(kellyOdds.decimalOdds, R1), kellyProb.decimal),
         RSub(R1, kellyProb.decimal))

\* C11: when b > 0 and the edge b*p - q is not positive, KellyFraction and
\* KellyStake return exactly 0, whatever the multiplier.
C11_NoEdgeNoStake ==
    (/\ kellyPc \in {"done", "staked"}
     /\ RGt(kellyOdds.decimalOdds, R1)
     /\ RLe(KellyEdge, Int2R(0)))
        => kellyRet = Int2R(0)

\* C12: odds with decimalOdds = 1.0 are reported as a failure: neither the
\* American conversion nor KellyFraction returns an infinite or NaN value.
C12_DegenerateSurfaced ==
    (kellyPc = "done" /\ kellyOdds.decimalOdds = R1)
        => (IsFin(kellyOdds.americanOdds) /\ IsFin(kellyRet))

(***************************************************************************)
(* Properties of ShinOdds on two outcomes.                                 *)
(***************************************************************************)
\* the divisor 2.0 * (1.0 - c) of the closure prob of ShinOdds
ShinDenominator(cc) == FxMul(2 * SCALE, SCALE - cc)

WidthA == pair[1].americanOdds

WidthB == pair[2].americanOdds

BothPositive == RGt(WidthA, Int2R(0)) /\ RGt(WidthB, Int2R(0))

BothNegative == RLt(WidthA, Int2R(0)) /\ RLt(WidthB, Int2R(0))

\* MarketWidth returned the value of the case its arguments fall in, and the
\* same value as with the arguments swapped
WidthByCase ==
    /\ BothPositive => out.val = RNeg(RSub(RAdd(WidthA, WidthB), Int2R(200)))
    /\ BothNegative => out.val = RSub(RAdd(RAbs(WidthA), RAbs(WidthB)), Int2R(200))
    /\ (~BothPositive /\ ~BothNegative) => out.val = RAbs(RAdd(WidthA, WidthB))
    /\ out.val = MarketWidth(pair[2], pair[1])

PrimaryKept ==
    opc = "ready" =>
        \A k \in 1..2 :
            /\ given[k].basis = "american" => American(pair[k]) = given[k].value
            /\ given[k].basis = "decimal" => Decimal(pair[k]) = given[k].value

\* the accessors return it
AccessorsExact ==
    /\ (out.op = "American" /\ given[1].basis = "american") => out.val = given[1].value
    /\ (out.op = "Decimal" /\ given[1].basis = "decimal") => out.val = given[1].value

\* no call on constructed Odds changes them
OddsFrame == opc = "ready" => pair' = pair

\* C15: NewOddsFromAmerican(a).American() = a and NewOddsFromDecimal(d).Decimal()
\* = d, and no later call on the Odds changes either field.
C15_PrimaryPreserved == [](PrimaryKept /\ AccessorsExact) /\ [][OddsFrame]_vars

C15_Witness ==
    /\ out.op = "Accumulate"
    /\ given[1].basis = "american"
    /\ given[2].basis = "decimal"
    /\ RLt(given[1].value, Int2R(0))

(***************************************************************************)
(* The iteration of ShinOdds, OddsRatioOdds and LogarithmicOdds.            *)
(***************************************************************************)
\* sum_i f(o_i, c) of the normalizer in progress
TransSumAt(cc) == transSum(method, odds, cc)

\* C16 as stated: each iteration replaces c by c + (1 - sum_i f(o_i, c)).
C16_StepAsStated ==
    [][(pc = "loop" /\ pc' = "loop") => c' = c + (SCALE - TransSumAt(c))]_vars

\* in the loop delta is the residual at the current c, and a call returns
\* 1 / f(o_i, c) for the c it ended with, with the residual within the
\* tolerance or the iterations used up
C16_State ==
    /\ pc = "loop" => delta = TransSumAt(c) - SCALE
    /\ (JustReturned /\ method \in Iterative) =>
           /\ Abs(delta) <= Tolerance \/ i = maxIterations

\* c starts at 0.0 (Shin) or 1.0 (OddsRatio, Logarithmic); a pass is made
\* only while the residual exceeds the tolerance and i is below 1000, and it
\* replaces c by c + (sum_i f(o_i, c) - 1); the loop is left otherwise
C16_Step ==
    /\ (pc = "call" /\ pc' = "loop") =>
           c' = (IF method = "ShinOdds" THEN 0 ELSE SCALE)
    /\ (pc = "loop" /\ pc' = "loop") =>
           /\ c' = c + (TransSumAt(c) - SCALE)
           /\ Abs(delta) > Tolerance
           /\ i < maxIterations
    /\ (pc = "loop" /\ pc' # "loop") =>
           /\ Abs(delta) <= Tolerance \/ i >= maxIterations
           /\ rets'[Len(rets')].odds =
                  [j \in 1..Len(odds) |->
                      NewOddsFromDecimal(RDiv(R1, FromFx(prob(method, odds, odds[j], c))))]

\* C16 amended: c starts at 0.0 (Shin) or 1.0 (OddsRatio, Logarithmic), each
\* iteration replaces c by c + (sum_i f(o_i, c) - 1), the loop stops at the
\* first point where the residual is within the tolerance or after 1000
\* iterations, and the returned odds are 1 / f(o_i, c_final).
C16_IterationRule == []C16_State /\ [][C16_Step]_vars

C16_Witness ==
    /\ JustReturned
    /\ method \in Iterative
    /\ Len(market) >= 2
    /\ bodyRuns >= 2
    /\ bodyRuns < maxIterations
    /\ c # InitialC(method)

(***************************************************************************)
(* Cross-basis round trips and display of Odds.                            *)
(***************************************************************************)
\* C17 as stated: for all odds with decimalOdds > 1 both cross-basis round
\* trips return the original primary value.
C17_RoundTripAll ==
    (out.op = "RoundTrip" /\ RGt(pair[1].decimalOdds, R1)) => out.val = given[1].value

\* an American value as the decimal conversion writes it: at least +100 or
\* below -100
CanonicalAmerican(a) == RGe(a, R100) \/ RLt(a, Int2R(-100))

\* C17 amended: the round trip from a decimal d > 1 returns d, and the round
\* trip from an American a returns a when a >= 100 or a < -100.
C17_RoundTrip ==
    (out.op = "RoundTrip" /\ RGt(pair[1].decimalOdds, R1)) =>
        /\ given[1].basis = "decimal" => out.val = given[1].value
        /\ (given[1].basis = "american" /\ CanonicalAmerican(given[1].value))
               => out.val = given[1].value
        /\ (given[1].basis = "american" /\ ~CanonicalAmerican(given[1].value))
               => (out.val # given[1].value /\ CanonicalAmerican(out.val))

C17_Witness ==
    /\ out.op = "RoundTrip"
    /\ given[1].basis = "american"
    /\ RLt(given[1].value, Int2R(-100))
    /\ out.val = given[1].value

\* C18: ToString(American) is one sign character, '+' for americanOdds >= 0
\* and '-' below 0, followed by the magnitude with two decimal places;
\* ToString(Decimal) is the decimal odds with two decimal places and no sign.
C18_SignedDisplay ==
    /\ out.op = "ToStringAmerican" =>
           /\ Head(out.str) = (IF RGe(pair[1].americanOdds, Int2R(0)) THEN "+" ELSE "-")
           /\ Tail(out.str) = Sprintf2f(RAbs(pair[1].americanOdds))
    /\ out.op = "ToStringDecimal" =>
           /\ out.str = Sprintf2f(pair[1].decimalOdds)
           /\ Head(out.str) \notin {"+", "-"}

(***************************************************************************)
(* Properties of the closed-form normalizers.                              *)
(***************************************************************************)
\* the market the latest call was given: the first call gets market, the
\* second the permutation kept in odds
InputOf(k) == IF k = 1 THEN market ELSE odds

AllAboveOne(s) == \A j \in 1..Len(s) : RGt(s[j].decimalOdds, R1)

\* C19: on every market with all decimalOdds > 1 MPTOdds and AdditiveOdds
\* return the same decimal odds at every index.
C19_MPTIsAdditive ==
    \A k \in 1..Len(rets) :
        AllAboveOne(InputOf(k)) =>
            /\ method = "MPTOdds" =>
                   \A j \in 1..Len(rets[k].odds) :
                       rets[k].odds[j].decimalOdds = AdditiveOdds(InputOf(k))[j].decimalOdds
            /\ method = "AdditiveOdds" =>
                   \A j \in 1..Len(rets[k].odds) :
                       rets[k].odds[j].decimalOdds = MPTOdds(InputOf(k))[j].decimalOdds

C19_Witness ==
    /\ method = "MPTOdds"
    /\ pc = "done"
    /\ Len(market) = 3
    /\ RGt(margin(market), Int2R(0))
    /\ \E a, b \in 1..3 : market[a] # market[b]

\* C20: for a market of n >= 2 odds, all above 1, with margin >= 0, every
\* odds returned by EqualMarginOdds, AdditiveOdds and MPTOdds has
\* decimalOdds > 1.
C20_ValidPrices ==
    \A k \in 1..Len(rets) :
        (/\ method \in ClosedForm
         /\ Len(InputOf(k)) >= 2
         /\ AllAboveOne(InputOf(k))
         /\ RGe(margin(InputOf(k)), Int2R(0)))
            => AllAboveOne(rets[k].odds)

====
